---- MODULE Spec2Model ----
(***************************************************************************)
(* The "Teaching and Learning" view (TeachingAndLearning.tsx): the         *)
(* top-level component with its shared state (entries, teacherId), the     *)
(* four Card panels with their local state (showForm, formData, viewMore), *)
(* the asynchronous handlers fetchTeacherId, fetchEntries,                 *)
(* addOrUpdateEntry, handleDelete and logActivity, and the three remote    *)
(* collections they talk to (teachers, TeachingLearning, activityLogs).    *)
(*                                                                         *)
(* Every await of the source is a point where the handler is suspended:    *)
(* a handler in flight is a record of the variable tasks, its pc naming    *)
(* the remote call it waits for.  A query is answered in two steps, the    *)
(* service reading the collection and the response reaching the client,    *)
(* so that responses may arrive in any order.                              *)
(***************************************************************************)
EXTENDS Integers, Sequences, FiniteSets, Bags, TLC

\* ------------------------------------------------------------------ bounds
MaxMutations == 2      \* Save/Delete handlers started with a resolved teacher
MaxInFlight == 2       \* handlers suspended at an await when the user starts another

\* ------------------------------------------------------- fixed vocabulary
Categories ==
  {"Course Design", "Pedagogical Innovations", "Student Feedback", "Academic Results"}

\* Names every object literal inherits from Object.prototype: looking one of
\* them up in updatedEntries yields a function, which is truthy and has no push.
ObjectPrototypeKeys == {"constructor"}

Undefined == "<undefined>"
NoUser == "<null>"
NoTeacher == "<null>"
NoId == 0

Users == {"u1", "u2"}
\* The documents of the collection "teachers" (keyed by user id).
TeacherDocs == {"u1"}

FieldNames == {"title", "className", "section", "description", "url"}

\* The inputs of the form, in the order in which it shows them.
FieldOrder == <<"title", "className", "section", "description", "url">>

\* What the user puts into each input of the form.
FieldValues(name) ==
  CASE name = "title" -> {"Flipped Classroom"}
    [] name = "className" -> {"2nd Year"}
    [] name = "section" -> {"B"}
    [] name = "description" -> {"d1"}
    [] name = "url" -> {"https://example.com/doc"}

\* The panel the user works in; the other three only display their bucket.
UserPanels == {"Course Design"}

EmptyForm ==
  [id |-> NoId, title |-> "", className |-> "", section |-> "",
   description |-> "", url |-> ""]

EmptyBuckets == [c \in Categories |-> <<>>]

MkDoc(id, cat, title, className, section, description, url, tid) ==
  [id |-> id, category |-> cat, title |-> title, className |-> className,
   section |-> section, description |-> description, url |-> url,
   teacherId |-> tid]

\* Documents found in TeachingLearning when the view is opened: entries of the
\* teacher in two panels (one written before the section field existed), an
\* entry of another teacher, and entries whose category is none of the four.
LegacyDoc == MkDoc(2, "Course Design", "Syllabus", "1st Year", Undefined, "d0", "https://example.com/s", "u1")
FeedbackDoc == MkDoc(4, "Student Feedback", "Survey", "2nd Year", "B", "d0", "https://example.com/f", "u1")
ForeignDoc == MkDoc(6, "Course Design", "Other teacher", "3rd Year", "A", "d0", "https://example.com/o", "u2")
OtherDoc == MkDoc(8, "Research", "Paper", "4th Year", "C", "d0", "https://example.com/r", "u1")
ProtoDoc == MkDoc(10, "constructor", "Odd", "4th Year", "C", "d0", "https://example.com/c", "u1")

InitialStores ==
  { {},
    {LegacyDoc, FeedbackDoc, ForeignDoc, OtherDoc},
    {LegacyDoc, ForeignDoc, ProtoDoc} }

\* Identifiers the store assigns to new documents.  They are opaque to the
\* view; the model hands them out in order, interleaved with the initial ones.
NewIds == {2 * k - 1 : k \in 1..MaxMutations}

\* ---------------------------------------------------------- pure helpers
RECURSIVE SortedSeq(_)
\* The documents of a set as a sequence in identifier order (the order in
\* which a query without orderBy returns them).
SortedSeq(S) ==
  IF S = {} THEN <<>>
  ELSE LET d == CHOOSE x \in S : \A y \in S : x.id <= y.id
       IN <<d>> \o SortedSeq(S \ {d})

\* QueryByTeacher, were the where clause left out.
QueryAll(docs, tid) == SortedSeq(docs)

\* query(collection(db, "TeachingLearning"), where("teacherId", "==", tid))
QueryByTeacher(docs, tid) == SortedSeq({d \in docs : d.teacherId = tid})

\* updatedEntries[key] for the object literal with the four own keys: the own
\* array, a function inherited from Object.prototype, or undefined.
LookupBucket(key) ==
  IF key \in Categories THEN "array"
  ELSE IF key \in ObjectPrototypeKeys THEN "function"
  ELSE "undefined"

\* The object pushed for one document of the snapshot.
EntryOf(d) ==
  [id |-> d.id, title |-> d.title, className |-> d.className,
   section |-> d.section, description |-> d.description, url |-> d.url,
   teacherId |-> d.teacherId, category |-> d.category]

RECURSIVE PartitionFrom(_, _, _)
\* querySnapshot.forEach(...) from document i on, acc the buckets so far.
\* threw is TRUE when the callback raised a TypeError (push on a non-array).
PartitionFrom(snap, i, acc) ==
  IF i > Len(snap) THEN [threw |-> FALSE, buckets |-> acc]
  ELSE LET data == snap[i]
           found == LookupBucket(data.category)
       IN IF found = "undefined" THEN PartitionFrom(snap, i + 1, acc)
          ELSE IF found = "function" THEN [threw |-> TRUE, buckets |-> acc]
          ELSE PartitionFrom(snap, i + 1,
                 [acc EXCEPT ![data.category] = Append(@, EntryOf(data))])

Partition(snap) == PartitionFrom(snap, 1, EmptyBuckets)

validateForm(formData) ==
  /\ formData.title # ""
  /\ formData.className # ""
  /\ formData.section # ""
  /\ formData.description # ""
  /\ formData.url # ""

\* NewEntry as it was before the section field was added.
NewEntryNoSection(category, f, tid) ==
  [category |-> category, title |-> f.title, className |-> f.className,
   section |-> "", description |-> f.description, url |-> f.url,
   teacherId |-> tid]

\* const newEntry = { category, title, className, section, description, url, teacherId }
NewEntry(category, f, tid) ==
  [category |-> category, title |-> f.title, className |-> f.className,
   section |-> f.section, description |-> f.description, url |-> f.url,
   teacherId |-> tid]

\* The record logActivity appends (description and timestamp are not kept:
\* nothing reads an audit record back).
LogEntry(actionType, entity, userId) ==
  [actionType |-> actionType, entity |-> entity, userId |-> userId]

\* setFormData({ ...entry, section: entry.section || "" })
EditForm(entry) ==
  [id |-> entry.id, title |-> entry.title, className |-> entry.className,
   section |-> IF entry.section \in {Undefined, ""} THEN "" ELSE entry.section,
   description |-> entry.description, url |-> entry.url]

\* ------------------------------------------------------------------ state
VARIABLES
  user,         \* useAuthStore().user?.id, NoUser when unauthenticated
  teacherId,    \* useState<string | null>(null)
  entries,      \* useState: category -> sequence of Entry (the displayed state)
  showForm,     \* per Card: useState(false)
  formData,     \* per Card: useState({ id: "", title: "", ... })
  viewMore,     \* per Card: useState(false)
  store,        \* the collection "TeachingLearning": a set of documents
  usedIds,      \* identifiers the store has assigned so far
  activityLogs, \* the collection "activityLogs": a bag of records
  tasks,        \* the handlers suspended at an await
  nFetch,       \* entry queries issued so far (numbers the fetches)
  nMutations,   \* Save/Delete handlers that issued a store call so far (numbers them)
  committed,    \* history: store mutations committed, by actionType
  auditFailed,  \* history: audit writes that failed, by actionType
  lastDone,     \* history: the fetch that called setEntries most recently
  discarded     \* history: a Save of a complete form has returned at the teacherId guard

vars ==
  <<user, teacherId, entries, showForm, formData, viewMore, store, usedIds,
    activityLogs, tasks, nFetch, nMutations, committed,
    auditFailed, lastDone, discarded>>

shared == <<user, teacherId, entries>>
local == <<showForm, formData, viewMore>>
remote == <<store, usedIds, activityLogs>>
history == <<committed, auditFailed, lastDone, discarded>>

ActionTypes == {"Add", "Edit", "Delete"}

\* The arguments onAddOrUpdate passes to addOrUpdateEntry for panel c and
\* form f (entryId is kept apart, as the id of the handler).
Args(c, f) ==
  [category |-> c, title |-> f.title, className |-> f.className,
   section |-> f.section, description |-> f.description, url |-> f.url]

BlankEntry == Args("", EmptyForm)

\* A handler in flight.  n: the number of the mutation handler (0 for the
\* others, of which there is one each); kind: the handler ("lookup" is fetchTeacherId, "fetch"
\* a fetchEntries started by the effect, an actionType a mutation handler,
\* which goes on to its own re-fetch); pc: the call it awaits; uid, tid: the
\* user and teacherId of the render that started it; id, entry: the arguments
\* the mutation handler was called with; snap: the query's answer once the service has read;
\* fseq: the number of its query; intact: no other mutation has been
\* committed on document id since this handler's own.
MkTask(n, kind, pc, uid, tid, id, entry, fseq) ==
  [n |-> n, kind |-> kind, pc |-> pc, uid |-> uid, tid |-> tid, id |-> id,
   entry |-> entry, snap |-> <<>>, fseq |-> fseq, intact |-> TRUE]

\* lastDone before any fetch has called setEntries.  maxSeq: the highest
\* query number among the fetches that have; count: how many have.
NoFetch ==
  [fseq |-> 0, kind |-> "none", id |-> NoId, entry |-> BlankEntry,
   snap |-> <<>>, intact |-> TRUE, maxSeq |-> 0, count |-> 0]

\* useEffect(() => { if (user?.id) fetchTeacherId(); }, [user?.id]): the
\* handlers started when the effect runs for user u.
UserEffect(u) ==
  IF u # NoUser
  THEN {MkTask(0, "lookup", "getDoc", u, NoTeacher, NoId, BlankEntry, 0)}
  ELSE {}

\* useEffect(() => { if (teacherId) fetchEntries(); }, [teacherId]), with
\* fetchEntries' own guard: the handlers started when teacherId becomes tid.
TeacherEffect(tid, uid, f) ==
  IF tid # NoTeacher
  THEN {MkTask(0, "fetch", "query", uid, tid, NoId, BlankEntry, f)}
  ELSE {}

Init ==
  /\ user \in Users \cup {NoUser}
  /\ teacherId = NoTeacher
  /\ entries = EmptyBuckets
  /\ showForm = [c \in Categories |-> FALSE]
  /\ formData = [c \in Categories |-> EmptyForm]
  /\ viewMore = [c \in Categories |-> FALSE]
  /\ store \in InitialStores
  /\ usedIds = {d.id : d \in store}
  /\ activityLogs = EmptyBag
  /\ tasks = UserEffect(user)
  /\ nFetch = 0
  /\ nMutations = 0
  /\ committed = [a \in ActionTypes |-> 0]
  /\ auditFailed = [a \in ActionTypes |-> 0]
  /\ lastDone = NoFetch
  /\ discarded = FALSE

\* The user is filling in a new entry: some input of an open add form is
\* filled and some is still empty.  Typing only writes formData[c], which no
\* handler in flight reads, so the events of one filling-in are taken together:
\* nothing else happens until the form is complete.
FillingIn ==
  \E c \in UserPanels :
    /\ showForm[c]
    /\ formData[c].id = NoId
    /\ formData[c] # EmptyForm
    /\ ~validateForm(formData[c])

\* Every other step of the model waits for the form to be complete.
Quiet == ~FillingIn

\* ----------------------------------------------------- session and identity
\* The session provider delivers the authenticated user; the effect on
\* [user?.id] runs.
Login(u) ==
  /\ Quiet
  /\ user = NoUser
  /\ user' = u
  /\ tasks' = tasks \cup UserEffect(u)
  /\ UNCHANGED <<teacherId, entries, local, remote, nFetch, nMutations, history>>

\* getDoc resolves and teacherDoc.exists(): setTeacherId(teacherDoc.id); the
\* effect on [teacherId] then runs if the value changed.
LookupFound(t) ==
  /\ Quiet
  /\ t.kind = "lookup" /\ t.pc = "getDoc"
  /\ t.uid \in TeacherDocs
  /\ teacherId' = t.uid
  /\ IF teacherId # t.uid
     THEN /\ tasks' = (tasks \ {t}) \cup TeacherEffect(t.uid, t.uid, nFetch + 1)
          /\ nFetch' = nFetch + 1
     ELSE /\ tasks' = tasks \ {t}
          /\ UNCHANGED nFetch
  /\ UNCHANGED <<user, entries, local, remote, nMutations, history>>

\* LookupMissing, were exists() not checked.
LookupMissingSets(t) ==
  /\ Quiet
  /\ t.kind = "lookup" /\ t.pc = "getDoc"
  /\ t.uid \notin TeacherDocs
  /\ teacherId' = t.uid
  /\ tasks' = (tasks \ {t}) \cup TeacherEffect(t.uid, t.uid, nFetch + 1)
  /\ nFetch' = nFetch + 1
  /\ UNCHANGED <<user, entries, local, remote, nMutations, history>>

\* getDoc resolves and the document does not exist: console.error only.
LookupMissing(t) ==
  /\ Quiet
  /\ t.kind = "lookup" /\ t.pc = "getDoc"
  /\ t.uid \notin TeacherDocs
  /\ tasks' = tasks \ {t}
  /\ UNCHANGED <<shared, local, remote, nFetch, nMutations, history>>

\* getDoc rejects: caught, console.error only.
LookupFail(t) ==
  /\ Quiet
  /\ t.kind = "lookup" /\ t.pc = "getDoc"
  /\ tasks' = tasks \ {t}
  /\ UNCHANGED <<shared, local, remote, nFetch, nMutations, history>>

\* ------------------------------------------------------------ fetchEntries
\* The service evaluates the query of a fetch in flight.
FetchRead(t) ==
  /\ Quiet
  /\ t.pc = "query"
  /\ tasks' = (tasks \ {t}) \cup
       {[t EXCEPT !.pc = "resp", !.snap = QueryByTeacher(store, t.tid)]}
  /\ UNCHANGED <<shared, local, remote, nFetch, nMutations, history>>

\* Installed, were the answer merged into the displayed buckets.
InstalledMerged(snap, old) ==
  LET r == Partition(snap)
  IN IF r.threw THEN old ELSE [c \in Categories |-> old[c] \o r.buckets[c]]

\* What the displayed state becomes when the answer snap arrives: the loop
\* runs, then setEntries(updatedEntries), unless the loop threw (caught).
Installed(snap, old) ==
  LET r == Partition(snap) IN IF r.threw THEN old ELSE r.buckets

\* getDocs resolves: the rest of the try block.
FetchComplete(t) ==
  /\ Quiet
  /\ t.pc = "resp"
  /\ entries' = Installed(t.snap, entries)
  /\ lastDone' =
       IF Partition(t.snap).threw THEN lastDone
       ELSE [fseq |-> t.fseq, kind |-> t.kind, id |-> t.id, entry |-> t.entry,
             snap |-> t.snap, intact |-> t.intact,
             maxSeq |-> IF t.fseq > lastDone.maxSeq THEN t.fseq ELSE lastDone.maxSeq,
             count |-> lastDone.count + 1]
  /\ tasks' = tasks \ {t}
  /\ UNCHANGED <<user, teacherId, local, remote, nFetch, nMutations, committed,
                 auditFailed, discarded>>

\* AfterFetchError, were the catch to clear the display.
AfterFetchErrorClears(old) == EmptyBuckets

\* What the displayed state becomes when getDocs rejects (catch: console.error).
AfterFetchError(old) == old

\* FetchFail, were the catch to drop the resolved teacher.
FetchFailResets(t) ==
  /\ Quiet
  /\ t.pc = "query"
  /\ teacherId' = NoTeacher
  /\ tasks' = tasks \ {t}
  /\ UNCHANGED <<user, entries, local, remote, nFetch, nMutations, history>>

\* getDocs rejects (a query the service has already read rejects to the same
\* effect, so the rejection is taken at the query).
FetchFail(t) ==
  /\ Quiet
  /\ t.pc = "query"
  /\ entries' = AfterFetchError(entries)
  /\ tasks' = tasks \ {t}
  /\ UNCHANGED <<user, teacherId, local, remote, nFetch, nMutations, history>>

\* ------------------------------------------------------------- Card panels
\* The + button: setShowForm(!showForm).
ToggleForm(c) ==
  /\ Quiet
  /\ showForm' = [showForm EXCEPT ![c] = ~@]
  /\ UNCHANGED <<shared, formData, viewMore, remote, tasks, nFetch,
                 nMutations, history>>

\* "View More", rendered when entries.length > 0: setViewMore(!viewMore).
ToggleViewMore(c) ==
  /\ Quiet
  /\ Len(entries[c]) > 0
  /\ viewMore' = [viewMore EXCEPT ![c] = ~@]
  /\ UNCHANGED <<shared, showForm, formData, remote, tasks, nFetch,
                 nMutations, history>>

\* "Close", rendered inside the expanded list: setViewMore(false).
CloseView(c) ==
  /\ Quiet
  /\ viewMore[c]
  /\ viewMore' = [viewMore EXCEPT ![c] = FALSE]
  /\ UNCHANGED <<shared, showForm, formData, remote, tasks, nFetch,
                 nMutations, history>>

\* The user fills the form of a new entry from the top (the first input still
\* empty), or rewrites the description of the entry being edited.
UserTypes(f, name) ==
  \/ \E k \in 1..Len(FieldOrder) :
       /\ FieldOrder[k] = name
       /\ f.id = NoId
       /\ f[name] = ""
       /\ \A j \in 1..k - 1 : f[FieldOrder[j]] # ""
  \/ name = "description" /\ f.id # NoId

\* handleInputChange: setFormData({ ...formData, [name]: value }).
InputChange(c, name, value) ==
  /\ showForm[c]
  /\ UserTypes(formData[c], name)
  /\ formData[c][name] # value
  /\ formData' = [formData EXCEPT ![c][name] = value]
  /\ UNCHANGED <<shared, showForm, viewMore, remote, tasks, nFetch,
                 nMutations, history>>

\* Cancel: setShowForm(false).
Cancel(c) ==
  /\ Quiet
  /\ showForm[c]
  /\ showForm' = [showForm EXCEPT ![c] = FALSE]
  /\ UNCHANGED <<shared, formData, viewMore, remote, tasks, nFetch,
                 nMutations, history>>

\* handleEdit(entry) on the i-th entry of the expanded list.
handleEdit(c, i) ==
  /\ Quiet
  /\ viewMore[c]
  /\ i \in 1..Len(entries[c])
  /\ formData' = [formData EXCEPT ![c] = EditForm(entries[c][i])]
  /\ showForm' = [showForm EXCEPT ![c] = TRUE]
  /\ UNCHANGED <<shared, viewMore, remote, tasks, nFetch, nMutations, history>>

\* The local state handleAddOrUpdate leaves behind.
FormAfterSave(f) == EmptyForm

\* SaveTasks, were teacherId not checked.
SaveTasksUnguarded(c, f, n) ==
  {MkTask(n, IF f.id # NoId THEN "Edit" ELSE "Add", "mutate", user,
          teacherId, f.id, Args(c, f), 0)}

\* SaveTasks, were the store call made only for a form validateForm accepts.
SaveTasksValidated(c, f, n) ==
  IF teacherId = NoTeacher \/ ~validateForm(f) THEN {}
  ELSE {MkTask(n, IF f.id # NoId THEN "Edit" ELSE "Add", "mutate", user,
               teacherId, f.id, Args(c, f), 0)}

\* addOrUpdateEntry up to its first await: nothing when teacherId is null,
\* otherwise updateDoc or addDoc is issued for newEntry.
SaveTasks(c, f, n) ==
  IF teacherId = NoTeacher THEN {}
  ELSE {MkTask(n, IF f.id # NoId THEN "Edit" ELSE "Add", "mutate", user,
               teacherId, f.id, Args(c, f), 0)}

\* The user starts another store call only within the bounds.
MayMutate == nMutations < MaxMutations /\ Cardinality(tasks) < MaxInFlight

\* Save: handleAddOrUpdate, that is onAddOrUpdate(...) and the form reset.
handleAddOrUpdate(c) ==
  /\ Quiet
  /\ showForm[c]
  /\ teacherId # NoTeacher => MayMutate
  /\ tasks' = tasks \cup SaveTasks(c, formData[c], nMutations + 1)
  /\ nMutations' = IF teacherId = NoTeacher THEN nMutations ELSE nMutations + 1
  /\ formData' = [formData EXCEPT ![c] = FormAfterSave(@)]
  /\ showForm' = [showForm EXCEPT ![c] = FALSE]
  /\ discarded' = (discarded \/ (teacherId = NoTeacher /\ validateForm(formData[c])))
  /\ UNCHANGED <<shared, viewMore, remote, nFetch, committed, auditFailed, lastDone>>

\* handleDelete, were the entry taken off the display at once.
handleDeleteOptimistic(c, i) ==
  /\ Quiet
  /\ viewMore[c]
  /\ i \in 1..Len(entries[c])
  /\ MayMutate
  /\ LET e == entries[c][i]
     IN /\ tasks' = tasks \cup
             {MkTask(nMutations + 1, "Delete", "mutate", user, teacherId, e.id,
                     [BlankEntry EXCEPT !.title = e.title, !.category = e.category], 0)}
        /\ entries' = [entries EXCEPT ![c] =
                         LET Others(x) == x.id # e.id IN SelectSeq(@, Others)]
  /\ nMutations' = nMutations + 1
  /\ UNCHANGED <<user, teacherId, local, remote, nFetch, history>>

\* Delete on the i-th entry of the expanded list: handleDelete(entry.id,
\* entry.title, entry.category) up to its first await (deleteDoc is issued).
handleDelete(c, i) ==
  /\ Quiet
  /\ viewMore[c]
  /\ i \in 1..Len(entries[c])
  /\ MayMutate
  /\ LET e == entries[c][i]
     IN tasks' = tasks \cup
          {MkTask(nMutations + 1, "Delete", "mutate", user, teacherId, e.id,
                  [BlankEntry EXCEPT !.title = e.title, !.category = e.category], 0)}
  /\ nMutations' = nMutations + 1
  /\ UNCHANGED <<shared, local, remote, nFetch, history>>

\* ------------------------------------------------------- the remote store
\* The document written for handler t under identifier id: newEntry, built
\* from the arguments and the teacherId of the render.
DocOf(t, id) ==
  LET newEntry == NewEntry(t.entry.category, t.entry, t.tid)
  IN MkDoc(id, newEntry.category, newEntry.title, newEntry.className,
           newEntry.section, newEntry.description, newEntry.url,
           newEntry.teacherId)

\* Applied, were the description left out of the update.
AppliedKeepsDescription(t, id, docs) ==
  CASE t.kind = "Add" -> docs \cup {DocOf(t, id)}
    [] t.kind = "Edit" ->
         {d \in docs : d.id # id} \cup
         {[DocOf(t, id) EXCEPT !.description = d.description]
            : d \in {x \in docs : x.id = id}}
    [] t.kind = "Delete" -> {d \in docs : d.id # id}

\* Applied, were deleteDoc given the wrong reference.
AppliedNoDelete(t, id, docs) ==
  CASE t.kind = "Add" -> docs \cup {DocOf(t, id)}
    [] t.kind = "Edit" -> {d \in docs : d.id # id} \cup {DocOf(t, id)}
    [] t.kind = "Delete" -> docs

\* The collection after the store applies the mutation of handler t, id being
\* the identifier of the document written: addDoc inserts newEntry, updateDoc
\* overwrites the seven fields of newEntry, deleteDoc removes the document.
Applied(t, id, docs) ==
  CASE t.kind = "Add" -> docs \cup {DocOf(t, id)}
    [] t.kind = "Edit" -> {d \in docs : d.id # id} \cup {DocOf(t, id)}
    [] t.kind = "Delete" -> {d \in docs : d.id # id}

\* Another handler whose own mutation of document id is committed and whose
\* re-fetch has not been answered yet no longer finds its document as it left it.
Touch(ts, id) ==
  {IF u.pc \in {"log", "query"} /\ u.id = id THEN [u EXCEPT !.intact = FALSE] ELSE u
     : u \in ts}

\* addDoc / updateDoc / deleteDoc resolves: the store has applied the write and
\* the handler goes on to logActivity, which issues its own addDoc.
\* updateDoc only resolves for a document that exists; deleteDoc resolves
\* whether or not it does.
MutateCommit(t, id) ==
  /\ Quiet
  /\ t.kind \in ActionTypes /\ t.pc = "mutate"
  /\ CASE t.kind = "Add" -> id \in NewIds \ usedIds /\ \A j \in NewIds \ usedIds : id <= j
       [] t.kind = "Edit" -> id = t.id /\ \E d \in store : d.id = id
       [] t.kind = "Delete" -> id = t.id
  /\ store' = Applied(t, id, store)
  /\ usedIds' = usedIds \cup {id}
  /\ tasks' = Touch(tasks \ {t}, id) \cup {[t EXCEPT !.pc = "log", !.id = id]}
  /\ committed' = [committed EXCEPT ![t.kind] = @ + 1]
  /\ UNCHANGED <<shared, local, activityLogs, nFetch, nMutations, auditFailed,
                 lastDone, discarded>>

\* MutateFail, were fetchEntries called after the catch.
MutateFailRefetches(t) ==
  /\ Quiet
  /\ t.kind \in ActionTypes /\ t.pc = "mutate"
  /\ tasks' = (tasks \ {t}) \cup {[t EXCEPT !.pc = "query", !.fseq = nFetch + 1]}
  /\ nFetch' = nFetch + 1
  /\ UNCHANGED <<shared, local, remote, nMutations, history>>

\* MutateFail, were logActivity called in a finally block.
MutateFailLogs(t) ==
  /\ Quiet
  /\ t.kind \in ActionTypes /\ t.pc = "mutate"
  /\ tasks' = (tasks \ {t}) \cup {[t EXCEPT !.pc = "log"]}
  /\ UNCHANGED <<shared, local, remote, nFetch, nMutations, history>>

\* addDoc / updateDoc / deleteDoc rejects: the catch of the handler logs to
\* the console; neither logActivity nor fetchEntries is reached.
MutateFail(t) ==
  /\ Quiet
  /\ t.kind \in ActionTypes /\ t.pc = "mutate"
  /\ tasks' = tasks \ {t}
  /\ UNCHANGED <<shared, local, remote, nFetch, nMutations, history>>

\* The handler after logActivity has returned: fetchEntries() issues its query.
Refetch(t, f) == [t EXCEPT !.pc = "query", !.fseq = f]

\* Logged, were every handler to pass "Add".
LoggedAsAdd(t, logs) ==
  logs (+) SetToBag({LogEntry("Add", "TeachingLearning", t.uid)})

\* The audit collection after logActivity's addDoc has been applied.
Logged(t, logs) == logs (+) SetToBag({LogEntry(t.kind, "TeachingLearning", t.uid)})

\* logActivity's addDoc resolves.
LogCommit(t) ==
  /\ Quiet
  /\ t.kind \in ActionTypes /\ t.pc = "log"
  /\ activityLogs' = Logged(t, activityLogs)
  /\ tasks' = (tasks \ {t}) \cup {Refetch(t, nFetch + 1)}
  /\ nFetch' = nFetch + 1
  /\ UNCHANGED <<shared, local, store, usedIds, nMutations, history>>

\* LogFail, were the rejection to reach the catch of the calling handler.
LogFailStops(t) ==
  /\ Quiet
  /\ t.kind \in ActionTypes /\ t.pc = "log"
  /\ tasks' = tasks \ {t}
  /\ auditFailed' = [auditFailed EXCEPT ![t.kind] = @ + 1]
  /\ UNCHANGED <<shared, local, remote, nFetch, nMutations,
                 committed, lastDone, discarded>>

\* logActivity's addDoc rejects: caught inside logActivity, which returns.
LogFail(t) ==
  /\ Quiet
  /\ t.kind \in ActionTypes /\ t.pc = "log"
  /\ tasks' = (tasks \ {t}) \cup {Refetch(t, nFetch + 1)}
  /\ nFetch' = nFetch + 1
  /\ auditFailed' = [auditFailed EXCEPT ![t.kind] = @ + 1]
  /\ UNCHANGED <<shared, local, remote, nMutations,
                 committed, lastDone, discarded>>

\* ------------------------------------------------------------ specification
Next ==
  \/ \E u \in Users : Login(u)
  \/ \E t \in tasks : LookupFound(t)
  \/ \E t \in tasks : LookupMissing(t)
  \/ \E t \in tasks : LookupFail(t)
  \/ \E t \in tasks : FetchRead(t)
  \/ \E t \in tasks : FetchComplete(t)
  \/ \E t \in tasks : FetchFail(t)
  \/ \E c \in UserPanels : ToggleForm(c)
  \/ \E c \in UserPanels : ToggleViewMore(c)
  \/ \E c \in UserPanels : CloseView(c)
  \/ \E c \in UserPanels, name \in FieldNames :
       \E value \in FieldValues(name) : InputChange(c, name, value)
  \/ \E c \in UserPanels : Cancel(c)
  \/ \E c \in UserPanels, i \in 1..MaxMutations + 1 : handleEdit(c, i)
  \/ \E c \in UserPanels : handleAddOrUpdate(c)
  \/ \E c \in UserPanels, i \in 1..MaxMutations + 1 : handleDelete(c, i)
  \/ \E t \in tasks : \E id \in NewIds \cup {t.id} : MutateCommit(t, id)
  \/ \E t \in tasks : MutateFail(t)
  \/ \E t \in tasks : LogCommit(t)
  \/ \E t \in tasks : LogFail(t)

Spec == Init /\ [][Next]_vars

\* ------------------------------------------------------------------ claims
\* The number of audit records of one actionType.
LogCount(a) ==
  BagCardinality([r \in {x \in BagToSet(activityLogs) : x.actionType = a}
                    |-> CopiesIn(r, activityLogs)])

\* The handlers of one actionType waiting for their audit write.
AuditPending(a) == Cardinality({t \in tasks : t.kind = a /\ t.pc = "log"})

\* The number of entries of a bucket that carry identifier id.
Occurrences(bucket, id) ==
  Cardinality({j \in 1..Len(bucket) : bucket[j].id = id})

\* The partition of a query answer by category, as the specification states it.
ByCategory(snap) ==
  [c \in Categories |->
     LET InBucket(d) == d.category = c IN SelectSeq(snap, InBucket)]

\* C1 as stated: once no handler is in flight, the audit trail holds exactly
\* one record per mutation performed, of the matching actionType.
C1_OneRecordPerMutation ==
  tasks = {} => \A a \in ActionTypes : LogCount(a) = committed[a]

\* C1 as amended: each committed mutation is followed by one audit write,
\* which appends one record of the matching actionType, entity
\* "TeachingLearning" and the session user when it succeeds and nothing when
\* it fails; so per actionType the records number the committed mutations
\* less those whose audit write failed or is still in flight.
C1_AuditFollowsCommit ==
  /\ \A a \in ActionTypes :
       LogCount(a) = committed[a] - auditFailed[a] - AuditPending(a)
  /\ \A r \in BagToSet(activityLogs) :
       /\ r.actionType \in ActionTypes
       /\ r.entity = "TeachingLearning"
       /\ r.userId = user

\* C1's case: an add and a delete have both been audited and nothing is in flight.
C1_Witness ==
  /\ tasks = {}
  /\ LogCount("Add") = 1
  /\ LogCount("Delete") = 1
  /\ auditFailed = [a \in ActionTypes |-> 0]

\* C2 as stated: whatever answer reaches fetchEntries, the state it installs
\* holds each returned entry of a known category exactly once, in the bucket
\* of that category and in no other, holds no entry of another category, and
\* holds nothing that was not returned.
C2_InstallsPartition ==
  \A t \in tasks :
    t.pc = "resp" =>
      LET new == Installed(t.snap, entries)
      IN /\ \A i \in 1..Len(t.snap), c \in Categories :
              Occurrences(new[c], t.snap[i].id) =
                IF t.snap[i].category = c THEN 1 ELSE 0
         /\ \A c \in Categories : \A j \in 1..Len(new[c]) :
              \E i \in 1..Len(t.snap) : new[c][j] = t.snap[i]

\* The entry that handler record L submitted is displayed in its bucket.
ShowsSubmitted(L) ==
  \E j \in 1..Len(entries[L.entry.category]) :
    LET e == entries[L.entry.category][j]
    IN /\ e.title = L.entry.title
       /\ e.className = L.entry.className
       /\ e.section = L.entry.section
       /\ e.description = L.entry.description
       /\ e.url = L.entry.url
       /\ e.teacherId = teacherId
       /\ e.category = L.entry.category

\* C3 as stated: when the re-fetch of a well-formed add has installed its
\* answer, the bucket of the panel shows the submitted entry.
C3_AddThenFetch ==
  (lastDone.kind = "Add" /\ validateForm(lastDone.entry)) => ShowsSubmitted(lastDone)

\* C3 as amended: the same, provided no update or delete of the new document
\* was committed before the re-fetch read the store.
C3_AddThenFetchIntact ==
  (lastDone.kind = "Add" /\ validateForm(lastDone.entry) /\ lastDone.intact)
    => ShowsSubmitted(lastDone)

\* C3's case: the re-fetch of a well-formed add has installed its answer.
C3_Witness ==
  /\ lastDone.kind = "Add"
  /\ validateForm(lastDone.entry)
  /\ lastDone.intact
  /\ lastDone.entry.section = "B"
  /\ Len(entries[lastDone.entry.category]) >= 2

\* The entry handler record L updated is displayed once, in the bucket of its
\* panel and only there, with the description L submitted.
ShowsUpdated(L) ==
  /\ \A c \in Categories :
       Occurrences(entries[c], L.id) = IF c = L.entry.category THEN 1 ELSE 0
  /\ \A j \in 1..Len(entries[L.entry.category]) :
       entries[L.entry.category][j].id = L.id =>
         entries[L.entry.category][j].description = L.entry.description

\* An update committed in this step writes to a document that exists and
\* creates none.
UpdateCreatesNothing ==
  committed'["Edit"] > committed["Edit"] =>
    {d.id : d \in store'} = {d.id : d \in store}

\* C4 as stated: when the re-fetch of an update has installed its answer, the
\* entry is shown under the same identifier in the same bucket with the new
\* description, and the update has created no entry.
C4_UpdateThenFetch ==
  /\ [](lastDone.kind = "Edit" => ShowsUpdated(lastDone))
  /\ [][UpdateCreatesNothing]_vars

\* C4 as amended: the same, provided no other update or delete of that
\* document was committed before the re-fetch read the store.
C4_UpdateThenFetchIntact ==
  /\ []((lastDone.kind = "Edit" /\ lastDone.intact) => ShowsUpdated(lastDone))
  /\ [][UpdateCreatesNothing]_vars

\* C4's case: the re-fetch of an update that changed the description has
\* installed its answer.
C4_Witness ==
  /\ lastDone.kind = "Edit"
  /\ lastDone.intact
  /\ lastDone.entry.description = "d1"
  /\ ShowsUpdated(lastDone)

\* C5: when the re-fetch of a delete has installed its answer, no bucket
\* holds an entry with the deleted identifier.
C5_DeleteThenFetch ==
  lastDone.kind = "Delete" =>
    \A c \in Categories : Occurrences(entries[c], lastDone.id) = 0

\* C5's case: the re-fetch of a delete has installed its answer while another
\* entry is still displayed.
C5_Witness ==
  /\ lastDone.kind = "Delete"
  /\ lastDone.id = LegacyDoc.id
  /\ entries # EmptyBuckets

\* A fetch is waiting for, or carrying, the answer to the entry query.
QueryInFlight == \E t \in tasks : t.pc \in {"query", "resp"}

\* C6: without a session user, or with one that has no teacher document,
\* teacherId stays null, no entry query is ever issued and the displayed
\* buckets stay empty.
C6_NoTeacherNoQuery ==
  (user = NoUser \/ user \notin TeacherDocs) =>
    /\ teacherId = NoTeacher
    /\ nFetch = 0
    /\ ~QueryInFlight
    /\ entries = EmptyBuckets

\* C6's case: the lookup of a user without teacher document has ended and the
\* user has filled in the form of a panel.
C6_Witness ==
  /\ user \in Users \ TeacherDocs
  /\ tasks = {}
  /\ \E c \in UserPanels : showForm[c] /\ validateForm(formData[c])

\* The fetch t ends in this step without calling setEntries: its query is
\* rejected, or the loop over its answer throws.
FetchFails(t) ==
  /\ t \in tasks
  /\ \A u \in tasks' : u.n # t.n \/ u.kind # t.kind
  /\ \/ t.pc = "query"
     \/ t.pc = "resp" /\ Partition(t.snap).threw

\* C7: a fetch that fails leaves the displayed buckets as they were.
C7_FailedFetchKeepsState ==
  [][\A t \in tasks : FetchFails(t) => entries' = entries]_vars

\* C7's case: entries are displayed, and the query issued last has ended
\* without any fetch installing its answer.
C7_Witness ==
  /\ entries # EmptyBuckets
  /\ ~QueryInFlight
  /\ lastDone.maxSeq < nFetch

\* C8 as stated: with a resolved teacher, once no handler is in flight and
\* every query issued has been answered and installed, the displayed buckets
\* are the partition of the teacher's documents in the store.
C8_ConvergesToStore ==
  (teacherId # NoTeacher /\ tasks = {} /\ lastDone.count = nFetch) =>
    entries = ByCategory(QueryByTeacher(store, teacherId))

\* C9: once teacherId is set it never changes.
C9_TeacherIdStable ==
  [][teacherId # NoTeacher => teacherId' = teacherId]_vars

\* C9's case: with teacherId resolved, a mutation and its re-fetch have run
\* and a later query has failed.
C9_Witness ==
  /\ teacherId # NoTeacher
  /\ lastDone.kind \in ActionTypes
  /\ lastDone.maxSeq < nFetch
  /\ tasks = {}

\* C10: the displayed buckets are always the partition of the answer of the
\* fetch that called setEntries last, whatever its place in the order of
\* issue, and the initial empty buckets while none has.
C10_LastResponseWins ==
  entries = IF lastDone.count = 0 THEN EmptyBuckets ELSE ByCategory(lastDone.snap)

\* C10's case: a fetch issued earlier installed its answer after a fetch
\* issued later, and the two answers differ.
C10_Witness ==
  /\ lastDone.fseq < lastDone.maxSeq
  /\ entries = ByCategory(lastDone.snap)
  /\ entries # ByCategory(QueryByTeacher(store, teacherId))
  /\ tasks = {}

\* C11 as stated: a step in which Save or Cancel is pressed in a panel leaves
\* its form closed and formData reset to the all-empty fields with empty id,
\* so that a closed form never keeps the id of an entry that was edited.
C11_SaveAndCancelClear ==
  [][\A c \in UserPanels :
       (handleAddOrUpdate(c) \/ Cancel(c)) =>
         (~showForm'[c] /\ formData'[c] = EmptyForm)]_vars

\* The audit writes of one actionType that have returned, either way.
AuditReturned(a) == LogCount(a) + auditFailed[a]

\* The queries issued by the effect on teacherId (one once it is resolved).
InitialFetches == IF teacherId # NoTeacher THEN 1 ELSE 0

\* The re-fetches the mutation handlers have issued.
RefetchesIssued == nFetch - InitialFetches

\* C12: the three remote steps of a mutation happen in the order store
\* mutation, audit append, re-fetch.  No actionType has more audit records
\* than committed mutations; the re-fetches issued number the audit writes
\* that have returned; every committed mutation is waiting for its audit
\* write or has issued its re-fetch; the step that appends a record leaves
\* the store alone and is the one in which that handler issues its query; and
\* the step that commits a mutation appends no record and issues no query.
C12_StoreThenAuditThenRefetch ==
  /\ [](\A a \in ActionTypes : LogCount(a) <= committed[a])
  /\ [](RefetchesIssued =
          AuditReturned("Add") + AuditReturned("Edit") + AuditReturned("Delete"))
  /\ [](committed["Add"] + committed["Edit"] + committed["Delete"] =
          RefetchesIssued + AuditPending("Add") + AuditPending("Edit")
            + AuditPending("Delete"))
  /\ [][activityLogs' # activityLogs =>
          /\ store' = store
          /\ committed' = committed
          /\ \E t \in tasks :
               /\ t.pc = "log"
               /\ [t EXCEPT !.pc = "query", !.fseq = nFetch'] \in tasks'
               /\ nFetch' = nFetch + 1]_vars
  /\ [][committed' # committed =>
          (activityLogs' = activityLogs /\ nFetch' = nFetch)]_vars

\* C12's case: a delete has gone through its three steps while the store
\* call of another handler has not been answered.
C12_Witness ==
  /\ lastDone.kind = "Delete"
  /\ committed["Delete"] = 1
  /\ LogCount("Delete") = 1
  /\ \E t \in tasks : t.kind \in ActionTypes /\ t.pc = "mutate"

\* The store call of handler t is rejected in this step: the handler leaves
\* its await without a mutation being committed.
StoreCallFails(t) ==
  /\ t \in tasks
  /\ t.kind \in ActionTypes /\ t.pc = "mutate"
  /\ t \notin tasks'
  /\ committed' = committed

\* C13: when the store call of an add, update or delete fails, no audit
\* record is appended and no re-fetch is issued, then or later (the handler
\* has ended); the entry store, the displayed buckets and the rest of the
\* view's state are as before, so the view goes on as it was.
C13_StoreFailureSwallowed ==
  [][\A t \in tasks :
       StoreCallFails(t) =>
         /\ activityLogs' = activityLogs
         /\ nFetch' = nFetch
         /\ store' = store
         /\ entries' = entries
         /\ \A u \in tasks' : u.n # t.n
         /\ shared' = shared /\ local' = local]_vars

\* C13's case: the only store call issued has failed and its handler has
\* ended, and the user has since filled in the form of a new entry.
C13_Witness ==
  /\ nMutations = 1
  /\ tasks = {}
  /\ committed = [a \in ActionTypes |-> 0]
  /\ activityLogs = EmptyBag
  /\ \E c \in UserPanels : showForm[c] /\ validateForm(formData[c])

\* The audit write of handler t is rejected in this step: the handler leaves
\* its await and no record has been appended.
AuditWriteFails(t) ==
  /\ t \in tasks
  /\ t.kind \in ActionTypes /\ t.pc = "log"
  /\ \A u \in tasks' : u.n = t.n => u.pc # "log"
  /\ activityLogs' = activityLogs

\* C14: when the audit append fails after a committed add, update or delete,
\* the store keeps the mutation (the step changes nothing in it) and the
\* handler goes on to issue its re-fetch.
C14_AuditFailureIndependent ==
  [][\A t \in tasks :
       AuditWriteFails(t) =>
         /\ store' = store
         /\ committed' = committed
         /\ nFetch' = nFetch + 1
         /\ Refetch(t, nFetch') \in tasks']_vars

\* C14's case: the audit write of an add has failed, the audit trail is
\* empty, and the add's re-fetch has displayed the entry, which the store holds.
C14_Witness ==
  /\ auditFailed["Add"] = 1
  /\ activityLogs = EmptyBag
  /\ lastDone.kind = "Add"
  /\ ShowsSubmitted(lastDone)
  /\ \E d \in store : d.id = lastDone.id /\ d.id \in NewIds

\* C15: with a resolved teacher, a step in which Save is pressed in a panel
\* issues the store call for the contents of its form whatever they are: an
\* update when the form holds an id, an add otherwise, with the five fields
\* as they stand, empty ones included.
C15_SaveNotGated ==
  [][\A c \in UserPanels :
       (handleAddOrUpdate(c) /\ teacherId # NoTeacher) =>
         \E t \in tasks' \ tasks :
           /\ t.pc = "mutate"
           /\ t.kind = IF formData[c].id # NoId THEN "Edit" ELSE "Add"
           /\ t.id = formData[c].id
           /\ t.entry = Args(c, formData[c])
           /\ t.tid = teacherId]_vars

\* C15's case: an entry that validateForm rejects was added through the view,
\* is in the store and is displayed.
C15_Witness ==
  \E c \in UserPanels : \E j \in 1..Len(entries[c]) :
    /\ ~validateForm(entries[c][j])
    /\ entries[c][j].id \in NewIds
    /\ \E d \in store : d.id = entries[c][j].id /\ ~validateForm(d)

\* C16: the displayed buckets change only in a step in which a fetch ends
\* with an answer whose loop did not throw, and then they become the
\* partition of that answer, whatever they were; teacherId changes only when
\* the identity lookup finds the teacher document; and a step that changes a
\* panel's local state, starts a mutation handler, or writes to the store or
\* the audit trail leaves user, teacherId and the displayed buckets as they were.
C16_EntriesOnlyByFetch ==
  /\ [][entries' # entries =>
          \E t \in tasks :
            /\ t.pc = "resp"
            /\ ~Partition(t.snap).threw
            /\ \A u \in tasks' : u.n # t.n \/ u.kind # t.kind
            /\ entries' = ByCategory(t.snap)]_vars
  /\ [][teacherId' # teacherId =>
          \E t \in tasks :
            t.kind = "lookup" /\ t.uid \in TeacherDocs /\ teacherId' = t.uid]_vars
  /\ [][(local' # local \/ nMutations' # nMutations \/ remote' # remote)
          => shared' = shared]_vars

\* C16's case: buckets installed by a fetch are displayed while the store
\* already holds an added document that they do not show.
C16_Witness ==
  /\ lastDone.count >= 1
  /\ entries # EmptyBuckets
  /\ \E d \in store :
       /\ d.id \in NewIds
       /\ d.teacherId = teacherId
       /\ d.category \in Categories
       /\ \A c \in Categories : Occurrences(entries[c], d.id) = 0

\* C17: a step in which Save is pressed while teacherId is null starts no
\* handler (no store write, no audit append, no query, then or later), leaves
\* the store, the audit trail and the shared state as they were, and still
\* closes the form and resets formData.
C17_SaveUnresolvedDiscards ==
  [][\A c \in UserPanels :
       (handleAddOrUpdate(c) /\ teacherId = NoTeacher) =>
         /\ tasks' = tasks
         /\ remote' = remote
         /\ nFetch' = nFetch /\ nMutations' = nMutations
         /\ shared' = shared
         /\ ~showForm'[c]
         /\ formData'[c] = EmptyForm]_vars

\* C17's case: a complete form was saved and dropped at the guard; nothing is
\* in flight, nothing was written or queried, and the form is closed and empty.
C17_Witness ==
  /\ discarded
  /\ teacherId = NoTeacher
  /\ tasks = {}
  /\ store \in InitialStores
  /\ activityLogs = EmptyBag
  /\ nFetch = 0 /\ nMutations = 0
  /\ \A c \in UserPanels : ~showForm[c] /\ formData[c] = EmptyForm

\* C18: teacherId is null or the session user's id; every mutation handler
\* writes its document with the teacherId that is also the userId of its
\* audit record, the session user's; every audit record names the session
\* user; and every displayed entry carries the resolved teacherId.
C18_ActorOwnsEntries ==
  /\ teacherId \in {NoTeacher, user}
  /\ \A t \in tasks :
       t.kind \in ActionTypes => (t.tid = t.uid /\ t.uid = user /\ t.tid = teacherId)
  /\ \A r \in BagToSet(activityLogs) : r.userId = teacherId
  /\ \A d \in store : d.id \in NewIds => d.teacherId = teacherId
  /\ \A c \in Categories : \A j \in 1..Len(entries[c]) :
       entries[c][j].teacherId = teacherId

\* C18's case: the store holds a document of another teacher; the session
\* user has added an entry, which is audited and displayed beside an older one.
C18_Witness ==
  /\ teacherId = user
  /\ ForeignDoc \in store
  /\ LogCount("Add") = 1
  /\ \E c \in UserPanels :
       /\ Len(entries[c]) >= 2
       /\ \E j \in 1..Len(entries[c]) : entries[c][j].id \in NewIds

====
